---------------------------- MODULE Spec2Model ----------------------------
(***************************************************************************)
(* Model of src/app.py: the financial metrics derivation of the dashboard  *)
(* (safe_first, seek_row, calc_ke, calc_kd, calc_wacc, cagr4, chunk_df,    *)
(* obtener_datos_financieros) and the analysis loop of main.               *)
(*                                                                         *)
(* Python values are modelled as tagged tuples:                            *)
(*   <<"num", n, d>>   the number n/d in lowest terms, d > 0               *)
(*   <<"none", 0, 1>>  None                                                *)
(*   <<"nan", 0, 1>>   a float NaN (a missing cell of a statement table)   *)
(*   <<"root", n, d>>/<<"root3", n, d>>  (n/d)^(1/2) - 1, (n/d)^(1/3) - 1  *)
(*                     when that is not a rational number                  *)
(*   <<"raise", 0, 1>> the evaluation raised an exception                  *)
(*   <<"series", s>>   a pandas Series with the cells s, most recent first *)
(***************************************************************************)
EXTENDS Integers, Sequences, FiniteSets, TLC

VARIABLES
    Rf, Rm, Tc0,        \* module globals of app.py, set by the sidebar
    pc,                 \* position in main ("idle", "loop", "done", ...)
    max_t,              \* the slider's setting read by the run
    tickers,            \* the bounded ticker list of the run
    i,                  \* index of the next ticker to process (1-based)
    datos,              \* records collected so far
    errs,               \* fetch-error entries collected so far
    df,                 \* the sorted view (a sequence of records)
    outcome,            \* how the run ended: "none", "no_data", "view"
    fn,                 \* unit harness: the function under call
    arg,                \* unit harness: its arguments
    ret                 \* unit harness: its result

vars == <<Rf, Rm, Tc0, pc, max_t, tickers, i, datos, errs, df, outcome, fn, arg, ret>>

-----------------------------------------------------------------------------
(* Exact rational arithmetic standing for Python/numpy float arithmetic.   *)

Abs(x) == IF x < 0 THEN -x ELSE x

RECURSIVE GCD(_, _)
GCD(a, b) == IF b = 0 THEN a ELSE GCD(b, a % b)

Num(n, d) ==
    LET g == GCD(Abs(n), Abs(d))
        s == IF d < 0 THEN -1 ELSE 1
    IN  <<"num", (s * n) \div g, (s * d) \div g>>

Z(n) == <<"num", n, 1>>

None == <<"none", 0, 1>>
NaN == <<"nan", 0, 1>>
Raise == <<"raise", 0, 1>>
Series(s) == <<"series", s>>
EmptySeries == <<"series", <<>>>>

IsNum(x) == x[1] = "num"
IsNone(x) == x[1] = "none"
IsNaN(x) == x[1] = "nan"
IsRaise(x) == x[1] = "raise"
IsSeries(x) == x[1] = "series"
IsRoot(x) == x[1] \in {"root", "root3"}
\* a finite real number: a rational, or an irrational root
IsFinite(x) == IsNum(x) \/ IsRoot(x)
Cells(x) == x[2]

\* Python truth value of x in a condition: "T", "F", or "R" when bool(x)
\* raises (the truth value of a pandas Series is ambiguous: ValueError).
Truth(x) ==
    CASE IsRaise(x) -> "R"
      [] IsSeries(x) -> "R"
      [] IsNone(x) -> "F"
      [] IsNum(x) -> IF x[2] = 0 THEN "F" ELSE "T"
      [] OTHER -> "T"

\* x or y
PyOr(x, y) ==
    CASE Truth(x) = "R" -> Raise
      [] Truth(x) = "T" -> x
      [] OTHER -> y

\* x and y
PyAnd(x, y) ==
    CASE Truth(x) = "R" -> Raise
      [] Truth(x) = "F" -> x
      [] OTHER -> y

\* A binary arithmetic operator applied to two Python values, op one of
\* "+", "-", "*", "/".  None operands raise TypeError; a Series operand
\* (only empty ones reach arithmetic) gives an empty Series; NaN spreads.
RatOp(op, a, b) ==
    CASE op = "+" -> Num(a[2] * b[3] + b[2] * a[3], a[3] * b[3])
      [] op = "-" -> Num(a[2] * b[3] - b[2] * a[3], a[3] * b[3])
      [] op = "*" -> Num(a[2] * b[2], a[3] * b[3])
      [] op = "/" -> IF b[2] = 0 THEN Raise ELSE Num(a[2] * b[3], a[3] * b[2])

Arith(op, a, b) ==
    CASE IsRaise(a) \/ IsRaise(b) -> Raise
      [] IsNone(a) \/ IsNone(b) -> Raise
      [] IsSeries(a) \/ IsSeries(b) -> EmptySeries
      [] IsNum(a) /\ IsNum(b) -> RatOp(op, a, b)
      [] OTHER -> NaN

Add(a, b) == Arith("+", a, b)
Sub(a, b) == Arith("-", a, b)
Mul(a, b) == Arith("*", a, b)
Div(a, b) == Arith("/", a, b)

-----------------------------------------------------------------------------
(* Auxiliary functions of app.py.  A statement table is a record           *)
(* [cols |-> number of periods, rows |-> line-item name -> cells].         *)

RECURSIVE dropna(_)
dropna(s) ==
    IF s = <<>> THEN <<>>
    ELSE IF IsNaN(Head(s)) THEN dropna(Tail(s))
    ELSE <<Head(s)>> \o dropna(Tail(s))

FirstN(s, n) == SubSeq(s, 1, IF Len(s) < n THEN Len(s) ELSE n)

\* safe_first: None stays None; a Series loses its missing cells and gives
\* its first cell, or the (empty) Series itself when none is left; any
\* other object has neither dropna nor iloc and is returned as it is.
safe_first(obj) ==
    CASE IsRaise(obj) -> Raise
      [] IsNone(obj) -> None
      [] IsSeries(obj) ->
            LET s == dropna(Cells(obj))
            IN  IF s # <<>> THEN s[1] ELSE Series(s)
      [] OTHER -> obj

\* seek_row: the row of the first key present in the index; otherwise
\* pd.Series([0], index=df.columns[:1]), which raises ValueError when the
\* table has no column (one value against an index of length 0).
RECURSIVE seek_row(_, _)
seek_row(t, keys) ==
    IF keys = <<>>
    THEN IF t.cols = 0 THEN Raise ELSE Series(<<Z(0)>>)
    ELSE IF Head(keys) \in DOMAIN t.rows
         THEN Series(t.rows[Head(keys)])
         ELSE seek_row(t, Tail(keys))

calc_ke(beta) == Add(Rf, Mul(beta, Sub(Rm, Rf)))

calc_kd(interest, debt) ==
    CASE Truth(debt) = "R" -> Raise
      [] Truth(debt) = "T" -> Div(interest, debt)
      [] OTHER -> Z(0)

calc_wacc(mcap, debt, ke, kd, t) ==
    LET total == Add(PyOr(mcap, Z(0)), PyOr(debt, Z(0)))
    IN  CASE Truth(total) = "R" -> Raise
          [] Truth(total) = "T" ->
                Add(Mul(Div(mcap, total), ke),
                    Mul(Mul(Div(debt, total), kd), Sub(Z(1), t)))
          [] OTHER -> None

RECURSIVE IPow(_, _)
IPow(b, e) == IF e = 0 THEN 1 ELSE b * IPow(b, e - 1)

\* the natural numbers p with p^k = n (at most one)
IRoot(n, k) == {p \in 0..n : IPow(p, k) = n}

\* r ** (1/k) - 1 for a number r and k in 1..3, as numpy computes it: NaN
\* for a negative base under a fractional exponent.
RootMinusOne(r, k) ==
    CASE ~IsNum(r) -> r
      [] k = 1 -> Sub(r, Z(1))
      [] r[2] < 0 -> NaN
      [] IRoot(r[2], k) # {} /\ IRoot(r[3], k) # {} ->
            Sub(Num(CHOOSE p \in IRoot(r[2], k) : TRUE,
                    CHOOSE q \in IRoot(r[3], k) : TRUE), Z(1))
      [] OTHER -> <<(IF k = 2 THEN "root" ELSE "root3"), r[2], r[3]>>

cagr4(fin, metric) ==
    IF metric \notin DOMAIN fin.rows THEN None
    ELSE LET v == FirstN(dropna(fin.rows[metric]), 4)
         IN  IF Len(v) > 1 /\ Truth(v[Len(v)]) = "T"
             THEN RootMinusOne(Div(v[1], v[Len(v)]), Len(v) - 1)
             ELSE None

\* chunk_df losing the last, shorter window (len(df) // size windows)
chunk_df_floor(group, size) ==
    [j \in 1..(Len(group) \div size) |->
        SubSeq(group, (j - 1) * size + 1, j * size)]

\* chunk_df: [df.iloc[i:i+size] for i in range(0, len(df), size)], size >= 1
chunk_df(group, size) ==
    IF group = <<>> THEN <<>>
    ELSE LET n == Len(group)
             cnt == (n + size - 1) \div size
         IN  [j \in 1..cnt |->
                SubSeq(group, (j - 1) * size + 1,
                       IF j * size < n THEN j * size ELSE n)]

-----------------------------------------------------------------------------
(* obtener_datos_financieros.  A fetch result f is a record                *)
(* [ok, info, bs, fin, cf]: ok = FALSE when reading the ticker's data      *)
(* raises; info maps the keys present to their values.                     *)

SECTOR_RANK ==
    [s \in {"Consumer Defensive", "Consumer Cyclical", "Healthcare",
            "Technology", "Financial Services", "Industrials",
            "Communication Services", "Energy", "Real Estate", "Utilities",
            "Basic Materials", "Unknown"} |->
        CASE s = "Consumer Defensive" -> 1
          [] s = "Consumer Cyclical" -> 2
          [] s = "Healthcare" -> 3
          [] s = "Technology" -> 4
          [] s = "Financial Services" -> 5
          [] s = "Industrials" -> 6
          [] s = "Communication Services" -> 7
          [] s = "Energy" -> 8
          [] s = "Real Estate" -> 9
          [] s = "Utilities" -> 10
          [] s = "Basic Materials" -> 11
          [] s = "Unknown" -> 99]

\* dict.get(key, default)
Get(info, key, default) == IF key \in DOMAIN info THEN info[key] ELSE default

DebtKeys == <<"Total Debt", "Long Term Debt">>
CashKeys == <<"Cash And Cash Equivalents",
              "Cash And Cash Equivalents At Carrying Value",
              "Cash Cash Equivalents And Short Term Investments">>
EquityKeys == <<"Common Stock Equity", "Total Stockholder Equity">>
InterestKeys == <<"Interest Expense">>
EbtKeys == <<"Ebt", "EBT">>
TaxKeys == <<"Income Tax Expense">>
EbitKeys == <<"EBIT", "Operating Income", "Earnings Before Interest and Taxes">>
FcfKeys == <<"Free Cash Flow">>

\* line 165: tax = tax_exp / ebt if ebt else Tc_def
Tax(tax_exp, ebt, Tc_def) ==
    CASE Truth(ebt) = "R" -> Raise
      [] Truth(ebt) = "T" -> Div(tax_exp, ebt)
      [] OTHER -> Tc_def

\* line 169: nopat = ebit * (1 - tax) if ebit is not None else None
Nopat(ebit, tax) ==
    IF ~IsNone(ebit) THEN Mul(ebit, Sub(Z(1), tax)) ELSE None

\* line 170: invested = (equity or 0) + ((debt or 0) - (cash or 0))
Invested(equity, debt, cash) ==
    Add(PyOr(equity, Z(0)), Sub(PyOr(debt, Z(0)), PyOr(cash, Z(0))))

\* line 171: roic = nopat / invested if (nopat is not None and invested)
\*           else None
Roic(nopat, invested) ==
    CASE IsRaise(nopat) -> Raise
      [] IsNone(nopat) -> None
      [] Truth(invested) = "R" -> Raise
      [] Truth(invested) = "T" -> Div(nopat, invested)
      [] OTHER -> None

\* the spread left as a fraction, not scaled to percent
CreacionValor_unscaled(roic, wacc) ==
    CASE IsRaise(roic) \/ IsRaise(wacc) -> Raise
      [] ~IsNone(roic) /\ ~IsNone(wacc) -> Sub(roic, wacc)
      [] OTHER -> None

\* line 174: (roic - wacc) * 100 if all(v is not None for v in (roic, wacc))
\*           else None
CreacionValor(roic, wacc) ==
    CASE IsRaise(roic) \/ IsRaise(wacc) -> Raise
      [] ~IsNone(roic) /\ ~IsNone(wacc) -> Mul(Sub(roic, wacc), Z(100))
      [] OTHER -> None

\* line 179: pfcf = price / (fcf/shares) if (fcf and shares) else None
Pfcf(price, fcf, shares) ==
    CASE Truth(PyAnd(fcf, shares)) = "R" -> Raise
      [] Truth(PyAnd(fcf, shares)) = "T" -> Div(price, Div(fcf, shares))
      [] OTHER -> None

\* The local variables of obtener_datos_financieros after lines 147-198,
\* each Raise when its statement raises (or an earlier value it reads did).
Locals(f, Tc_def) ==
    LET beta == Get(f.info, "beta", Z(1))
        ke == calc_ke(beta)
        debt == PyOr(safe_first(seek_row(f.bs, DebtKeys)),
                     Get(f.info, "totalDebt", Z(0)))
        cash == safe_first(seek_row(f.bs, CashKeys))
        equity == safe_first(seek_row(f.bs, EquityKeys))
        interest == safe_first(seek_row(f.fin, InterestKeys))
        ebt == safe_first(seek_row(f.fin, EbtKeys))
        tax_exp == safe_first(seek_row(f.fin, TaxKeys))
        ebit == safe_first(seek_row(f.fin, EbitKeys))
        kd == calc_kd(interest, debt)
        tax == Tax(tax_exp, ebt, Tc_def)
        mcap == Get(f.info, "marketCap", Z(0))
        wacc == calc_wacc(mcap, debt, ke, kd, tax)
        nopat == Nopat(ebit, tax)
        invested == Invested(equity, debt, cash)
        roic == Roic(nopat, invested)
        creacion_valor == CreacionValor(roic, wacc)
        price == Get(f.info, "currentPrice", None)
        fcf == safe_first(seek_row(f.cf, FcfKeys))
        shares == Get(f.info, "sharesOutstanding", None)
        pfcf == Pfcf(price, fcf, shares)
        revenue_growth == cagr4(f.fin, "Total Revenue")
        eps_growth == cagr4(f.fin, "Net Income")
        fcf_growth == PyOr(cagr4(f.cf, "Free Cash Flow"),
                           cagr4(f.cf, "Operating Cash Flow"))
    IN  [beta |-> beta, ke |-> ke, debt |-> debt, cash |-> cash,
         equity |-> equity, interest |-> interest, ebt |-> ebt,
         tax_exp |-> tax_exp, ebit |-> ebit, kd |-> kd, tax |-> tax,
         mcap |-> mcap, wacc |-> wacc, nopat |-> nopat,
         invested |-> invested, roic |-> roic,
         creacion_valor |-> creacion_valor, price |-> price, fcf |-> fcf,
         shares |-> shares, pfcf |-> pfcf,
         revenue_growth |-> revenue_growth, eps_growth |-> eps_growth,
         fcf_growth |-> fcf_growth]

\* some statement in the try block raised
BuildRaises(f, Tc_def) ==
    \/ ~f.ok
    \/ LET l == Locals(f, Tc_def) IN \E k \in DOMAIN l : IsRaise(l[k])

Dict(r) == <<"dict", r>>
IsDict(x) == x[1] = "dict"

\* The record returned at lines 200-227 (the fields info passes through
\* untouched other than Sector, Precio and MarketCap are left out), or
\* None from the except clause at lines 228-230.
obtener_datos_financieros(tk, f, Tc_def) ==
    IF BuildRaises(f, Tc_def) THEN None
    ELSE LET l == Locals(f, Tc_def)
         IN  Dict([Ticker |-> tk,
                   Sector |-> Get(f.info, "sector", "Unknown"),
                   Precio |-> l.price,
                   PFCF |-> l.pfcf,
                   WACC |-> l.wacc,
                   ROIC |-> l.roic,
                   CreacionValor |-> l.creacion_valor,
                   RevenueGrowth |-> l.revenue_growth,
                   EPSGrowth |-> l.eps_growth,
                   FCFGrowth |-> l.fcf_growth,
                   MarketCap |-> l.mcap])

-----------------------------------------------------------------------------
(* Inputs of the unit harness.                                             *)

MaxPresent == 3      \* line items and info keys a fetched ticker carries
MaxPeriods == 5      \* periods of a row given to cagr4 / safe_first
MaxKeys == 2         \* aliases given to seek_row
MaxGroup == 23       \* records of a sector group given to chunk_df
MaxSize == 11        \* window sizes given to chunk_df
MAX_TICKERS_PER_CHART == 10

\* (Rf, Rm, Tc0): the defaults of lines 20-22 and one sidebar setting
Configs == {<<Num(87, 2000), Num(17, 200), Num(21, 100)>>,
            <<Num(1, 50), Num(1, 10), Num(1, 4)>>}

BsItems == {"Total Debt", "Long Term Debt", "Cash And Cash Equivalents",
            "Common Stock Equity"}
FinItems == {"Interest Expense", "EBT", "Income Tax Expense", "EBIT",
             "Total Revenue"}
CfItems == {"Free Cash Flow", "Operating Cash Flow"}
InfoItems == {"beta", "totalDebt", "marketCap", "currentPrice",
              "sharesOutstanding"}
AllItems == BsItems \cup FinItems \cup CfItems \cup InfoItems

\* the value an item holds when it is present and not missing
Typical(k) ==
    CASE k = "Total Debt" -> <<NaN, Z(50)>>
      [] k = "Long Term Debt" -> <<Z(40), Z(40)>>
      [] k = "Cash And Cash Equivalents" -> <<Z(20), Z(10)>>
      [] k = "Common Stock Equity" -> <<Z(100), Z(90)>>
      [] k = "Interest Expense" -> <<Z(5), Z(4)>>
      [] k = "EBT" -> <<Z(40), Z(30)>>
      [] k = "Income Tax Expense" -> <<Z(10), Z(8)>>
      [] k = "EBIT" -> <<Z(45), Z(35)>>
      [] k = "Total Revenue" -> <<Z(100), Z(80)>>
      [] k = "Free Cash Flow" -> <<Z(30), Z(30)>>
      [] k = "Operating Cash Flow" -> <<Z(60), Z(50)>>
      [] k = "beta" -> Z(2)
      [] k = "totalDebt" -> Z(60)
      [] k = "marketCap" -> Z(150)
      [] k = "currentPrice" -> Z(10)
      [] k = "sharesOutstanding" -> Z(3)

EmptyTable == [cols |-> 0, rows |-> <<>>]

MkTable(items, present, missing) ==
    [cols |-> 2,
     rows |-> [k \in items \cap present |->
                 IF k \in missing THEN <<NaN, NaN>> ELSE Typical(k)]]

MkInfo(present, missing) ==
    [k \in InfoItems \cap present |->
        IF k \in missing THEN None ELSE Typical(k)]

\* a fetched ticker carrying the items of present, those of missing
\* holding a missing value (None in info, an all-NaN row in a table)
MkFetch(present, missing) ==
    [ok |-> TRUE,
     info |-> MkInfo(present, missing),
     bs |-> MkTable(BsItems, present, missing),
     fin |-> MkTable(FinItems, present, missing),
     cf |-> MkTable(CfItems, present, missing)]

NoItems == MkFetch({}, {})

BuildArgs ==
    UNION {{MkFetch(p, m) : m \in SUBSET p} :
              p \in {q \in SUBSET AllItems : Cardinality(q) <= MaxPresent}}
    \cup {[NoItems EXCEPT !.bs = EmptyTable],
          [NoItems EXCEPT !.fin = EmptyTable],
          [NoItems EXCEPT !.cf = EmptyTable],
          [NoItems EXCEPT !.bs = EmptyTable, !.fin = EmptyTable,
                          !.cf = EmptyTable],
          [NoItems EXCEPT !.ok = FALSE]}

Scalars == {Z(0), Z(50), Z(150)}
Rates == {Z(0), Num(1, 10), Num(1, 4)}
WaccArgs ==
    {<<m, d, ke, kd, t>> : m \in Scalars \cup {None},
                           d \in Scalars \cup {None},
                           ke \in {Num(17, 200)}, kd \in Rates, t \in Rates}

CellValues == {NaN, Z(0), Z(80), Z(100), Z(-80)}
RowsUpTo(n) == UNION {[1..k -> CellValues] : k \in 0..n}
\* a table whose only possible row is "Total Revenue", and the metric
CagrArgs ==
    {<<[cols |-> Len(r), rows |-> [k \in {"Total Revenue"} |-> r]],
       "Total Revenue">> : r \in RowsUpTo(MaxPeriods)}
    \cup {<<[cols |-> c, rows |-> <<>>], "Total Revenue">> : c \in 0..MaxPeriods}

Aliases == {"A", "B", "C"}
RowOf(k, c) == [j \in 1..c |-> IF k = "A" THEN Z(1) ELSE IF k = "B" THEN Z(2) ELSE NaN]
SeekTables ==
    {[cols |-> c, rows |-> [k \in ks |-> RowOf(k, c)]] :
        c \in 1..2, ks \in SUBSET Aliases}
    \cup {EmptyTable}
SeekArgs ==
    {<<t, keys>> : t \in SeekTables,
                   keys \in UNION {[1..n -> Aliases] : n \in 1..MaxKeys}}

ChunkArgs ==
    {<<[j \in 1..n |-> j], s>> : n \in 0..MaxGroup, s \in 1..MaxSize}

SafeFirstArgs ==
    {None, NaN, Z(0), Z(7)} \cup
    {Series(r) : r \in UNION {[1..k -> {NaN, Z(0), Z(7)}] : k \in 0..3}}

-----------------------------------------------------------------------------
(* main: the sidebar, the analysis loop and the sorted view.               *)

MaxTokens == 3       \* comma-separated tokens typed in the ticker box
MaxSlider == 3       \* largest setting of the "max tickers" slider used

\* What the data source holds for each ticker of the model's universe.
SectorOf(tk) ==
    CASE tk = "AAPL" -> "Technology"
      [] tk = "MSFT" -> "Technology"
      [] tk = "XOM" -> "Energy"
      [] tk = "KO" -> "Consumer Defensive"
      [] tk = "ACME" -> "Aerospace"
      [] OTHER -> ""

ItemsOf(tk) ==
    CASE tk = "AAPL" -> AllItems
      [] tk = "MSFT" -> BsItems \cup {"marketCap", "EBIT"}
      [] tk = "XOM" -> {"Long Term Debt", "Common Stock Equity", "EBIT",
                        "marketCap"}
      [] tk = "KO" -> {"marketCap"}
      [] tk = "ACME" -> {"totalDebt"}
      [] OTHER -> {}

Universe == {"AAPL", "MSFT", "XOM", "KO", "ZZZ", "ACME", "BAD", "VOID"}

\* yf.Ticker(tk): "BAD" raises on access, "VOID" has empty tables, "ZZZ"
\* has no sector key, the others carry ItemsOf(tk) and a sector.
Market(tk) ==
    LET f == MkFetch(ItemsOf(tk), {})
        g == IF SectorOf(tk) = "" THEN f
             ELSE [f EXCEPT !.info =
                     [k \in DOMAIN f.info \cup {"sector"} |->
                        IF k = "sector" THEN SectorOf(tk) ELSE f.info[k]]]
    IN  CASE tk = "BAD" -> [g EXCEPT !.ok = FALSE]
          [] tk = "VOID" -> [g EXCEPT !.bs = EmptyTable, !.fin = EmptyTable,
                                      !.cf = EmptyTable]
          [] OTHER -> g

\* t.strip().upper() on the tokens of the model
Normalise(tok) ==
    CASE tok = " " -> ""
      [] tok = " aapl" -> "AAPL"
      [] OTHER -> tok

RawTokens == Universe \cup {" ", " aapl"}

\* [t.strip().upper() for t in t_in.split(",") if t.strip()]
RECURSIVE Parse(_)
Parse(toks) ==
    IF toks = <<>> THEN <<>>
    ELSE IF Normalise(Head(toks)) = "" THEN Parse(Tail(toks))
    ELSE <<Normalise(Head(toks))>> \o Parse(Tail(toks))

\* Python's order on the strings of the model (code-point order)
StringOrder == <<"AAPL", "ACME", "Aerospace", "BAD", "Consumer Defensive",
                 "Energy", "KO", "MSFT", "Technology", "Unknown", "VOID",
                 "XOM", "ZZZ">>
Pos(str) == CHOOSE j \in 1..Len(StringOrder) : StringOrder[j] = str
StrLess(a, b) == Pos(a) < Pos(b)

\* the rank with fillna(0): unlisted sectors would sort first
SectorRank_fill0(sector) ==
    IF sector \in DOMAIN SECTOR_RANK THEN SECTOR_RANK[sector] ELSE 0

\* df["Sector"].map(SECTOR_RANK).fillna(99).astype(int)
SectorRank(sector) ==
    IF sector \in DOMAIN SECTOR_RANK THEN SECTOR_RANK[sector] ELSE 99

WithRank(r) ==
    [k \in DOMAIN r \cup {"SectorRank"} |->
        IF k = "SectorRank" THEN SectorRank(r.Sector) ELSE r[k]]

\* a sorts strictly before b under ["SectorRank", "Sector", "Ticker"]
KeyLess(a, b) ==
    \/ a.SectorRank < b.SectorRank
    \/ /\ a.SectorRank = b.SectorRank
       /\ \/ StrLess(a.Sector, b.Sector)
          \/ a.Sector = b.Sector /\ StrLess(a.Ticker, b.Ticker)

\* r put into the sorted sequence s after every row that does not sort
\* after it (sort_values on several columns is a stable lexsort)
RECURSIVE Insert(_, _)
Insert(s, r) ==
    IF s = <<>> THEN <<r>>
    ELSE IF KeyLess(r, Head(s)) THEN <<r>> \o s
    ELSE <<Head(s)>> \o Insert(Tail(s), r)

RECURSIVE sort_values(_)
sort_values(s) ==
    IF s = <<>> THEN <<>>
    ELSE Insert(sort_values(SubSeq(s, 1, Len(s) - 1)), s[Len(s)])

\* lines 284-286
SortedView(recs) == sort_values([j \in 1..Len(recs) |-> WithRank(recs[j])])

DefaultConfig == <<Num(87, 2000), Num(17, 200), Num(21, 100)>>

MainIdle ==
    /\ pc = "idle" /\ max_t = 1 /\ tickers = <<>> /\ i = 1 /\ datos = <<>> /\ errs = <<>>
    /\ df = <<>> /\ outcome = "none"

Pending == <<"pending">>
Returned(v) == <<"ret", v>>
Called == ret[1] = "ret"
Result == ret[2]

HarnessIdle == fn = "none" /\ arg = <<>> /\ ret = Pending

Init ==
    /\ Rf = DefaultConfig[1] /\ Rm = DefaultConfig[2] /\ Tc0 = DefaultConfig[3]
    /\ MainIdle
    /\ HarnessIdle

\* lines 247-250: the sidebar inputs set the globals
Sidebar ==
    /\ pc = "idle"
    /\ \E c \in Configs : Rf' = c[1] /\ Rm' = c[2] /\ Tc0' = c[3]
    /\ UNCHANGED <<pc, max_t, tickers, i, datos, errs, df, outcome, fn, arg,
                   ret>>

\* lines 252-259: the button is pressed
Analizar ==
    /\ pc = "idle"
    /\ \E toks \in UNION {[1..n -> RawTokens] : n \in 0..MaxTokens},
          m \in 1..MaxSlider :
            max_t' = m /\ tickers' = FirstN(Parse(toks), m)
    /\ datos' = <<>> /\ errs' = <<>> /\ i' = 1 /\ pc' = "loop"
    /\ UNCHANGED <<Rf, Rm, Tc0, df, outcome, fn, arg, ret>>

\* an iteration whose failure drops the records collected so far
Procesar_failure_resets ==
    /\ pc = "loop" /\ i <= Len(tickers)
    /\ \E tk \in {tickers[i]} : \E f \in {Market(tk)} :
       \E data \in {obtener_datos_financieros(tk, f, Tc0)} :
           datos' = IF IsDict(data) THEN Append(datos, data[2]) ELSE <<>>
    /\ i' = i + 1
    /\ UNCHANGED <<Rf, Rm, Tc0, pc, max_t, tickers, errs, df, outcome, fn, arg,
                   ret>>

\* lines 262-271: one iteration of the loop.  The except clause of line
\* 268 runs when the call raises.
Procesar ==
    /\ pc = "loop" /\ i <= Len(tickers)
    /\ \E tk \in {tickers[i]} : \E f \in {Market(tk)} :
       \E data \in {obtener_datos_financieros(tk, f, Tc0)} :
           /\ datos' = IF IsDict(data) THEN Append(datos, data[2]) ELSE datos
           /\ errs' = IF IsRaise(data)
                      THEN Append(errs, [Ticker |-> tk, Error |-> "exception"])
                      ELSE errs
    /\ i' = i + 1
    /\ UNCHANGED <<Rf, Rm, Tc0, pc, max_t, tickers, df, outcome, fn, arg, ret>>

\* the end of the loop taking a single record for no data
Terminar_needs_two ==
    /\ pc = "loop" /\ i > Len(tickers)
    /\ IF Len(datos) <= 1
       THEN outcome' = "no_data" /\ df' = df
       ELSE outcome' = "view" /\ df' = SortedView(datos)
    /\ pc' = "done"
    /\ UNCHANGED <<Rf, Rm, Tc0, max_t, tickers, i, datos, errs, fn, arg, ret>>

\* lines 278-286: the loop is over
Terminar ==
    /\ pc = "loop" /\ i > Len(tickers)
    /\ IF datos = <<>>
       THEN outcome' = "no_data" /\ df' = df
       ELSE outcome' = "view" /\ df' = SortedView(datos)
    /\ pc' = "done"
    /\ UNCHANGED <<Rf, Rm, Tc0, max_t, tickers, i, datos, errs, fn, arg, ret>>

\* the script is rerun from the top on the next interaction
Rerun ==
    /\ pc = "done"
    /\ pc' = "idle" /\ max_t' = 1 /\ tickers' = <<>> /\ i' = 1 /\ datos' = <<>>
    /\ errs' = <<>> /\ df' = <<>> /\ outcome' = "none"
    /\ UNCHANGED <<Rf, Rm, Tc0, fn, arg, ret>>

Next == Sidebar \/ Analizar \/ Procesar \/ Terminar \/ Rerun

Spec == Init /\ [][Next]_vars

-----------------------------------------------------------------------------
(* Unit harness: one call of one function on inputs drawn from the sets    *)
(* above.                                                                  *)

InitCalls ==
    /\ \E c \in Configs : Rf = c[1] /\ Rm = c[2] /\ Tc0 = c[3]
    /\ MainIdle
    /\ ret = Pending
    /\ \/ fn = "build" /\ arg \in BuildArgs
       \/ fn = "calc_wacc" /\ arg \in WaccArgs
       \/ fn = "cagr4" /\ arg \in CagrArgs
       \/ fn = "seek_row" /\ arg \in SeekArgs
       \/ fn = "chunk_df" /\ arg \in ChunkArgs
       \/ fn = "safe_first" /\ arg \in SafeFirstArgs

Return(v) ==
    /\ ret = Pending
    /\ ret' = Returned(v)
    /\ UNCHANGED <<Rf, Rm, Tc0, pc, max_t, tickers, i, datos, errs, df, outcome,
                   fn, arg>>

CallBuild ==
    fn = "build" /\ Return(obtener_datos_financieros("TEST", arg, Tc0))
CallWacc ==
    fn = "calc_wacc" /\ Return(calc_wacc(arg[1], arg[2], arg[3], arg[4], arg[5]))
CallCagr ==
    fn = "cagr4" /\ Return(cagr4(arg[1], arg[2]))
CallSeek ==
    fn = "seek_row" /\ Return(seek_row(arg[1], arg[2]))
CallChunk ==
    fn = "chunk_df" /\ Return(chunk_df(arg[1], arg[2]))
CallSafeFirst ==
    fn = "safe_first" /\ Return(safe_first(arg))

NextCalls ==
    CallBuild \/ CallWacc \/ CallCagr \/ CallSeek \/ CallChunk \/ CallSafeFirst

SpecCalls == InitCalls /\ [][NextCalls]_vars

-----------------------------------------------------------------------------
(* Repeated builds: obtener_datos_financieros is called again and again on *)
(* inputs drawn from a small set while the sidebar may change the globals  *)
(* between two calls.  arg is the sequence of the inputs <<tk, f, Tc_def>> *)
(* of the calls made so far and ret the sequence of the values returned.   *)

MaxCalls == 3        \* calls of the build in one run of the harness

\* a ticker with a market cap and a beta, one with nothing, a failed fetch
RebuildArgs ==
    {MkFetch({"marketCap", "beta"}, {}), NoItems,
     [NoItems EXCEPT !.ok = FALSE]}

\* the default tax rates handed to the build
TaxRates == {Num(21, 100), Num(1, 4)}

InitLog ==
    /\ Rf = DefaultConfig[1] /\ Rm = DefaultConfig[2] /\ Tc0 = DefaultConfig[3]
    /\ MainIdle
    /\ fn = "build" /\ arg = <<>> /\ ret = <<>>

BuildLogged ==
    /\ Len(arg) < MaxCalls
    /\ \E tk \in {"TEST"}, f \in RebuildArgs, t \in TaxRates :
       \E data \in {obtener_datos_financieros(tk, f, t)} :
           /\ arg' = Append(arg, <<tk, f, t>>)
           /\ ret' = Append(ret, data)
    /\ UNCHANGED <<Rf, Rm, Tc0, pc, max_t, tickers, i, datos, errs, df, outcome,
                   fn>>

NextLog == Sidebar \/ BuildLogged

SpecLog == InitLog /\ [][NextLog]_vars

-----------------------------------------------------------------------------
(* Properties of the analysis loop (checked under Spec).                   *)

Succeeds(tk) == IsDict(obtener_datos_financieros(tk, Market(tk), Tc0))
RecordOf(tk) == obtener_datos_financieros(tk, Market(tk), Tc0)[2]
FailedPositions == {j \in 1..Len(tickers) : ~Succeeds(tickers[j])}

\* the records of the successful tickers of a list, in the list's order
RECURSIVE Successes(_)
Successes(tks) ==
    IF tks = <<>> THEN <<>>
    ELSE IF Succeeds(Head(tks)) THEN <<RecordOf(Head(tks))>> \o Successes(Tail(tks))
    ELSE Successes(Tail(tks))

Count(seq, r) == Cardinality({j \in 1..Len(seq) : seq[j] = r})

\* C1: when the loop is over, every ticker whose build failed has no entry
\* in datos and none in the sorted view, and has an entry in errs; errs
\* holds as many entries as there are failed tickers.
C1_FailedTickerRecordedOnce ==
    pc = "done" =>
        /\ Len(errs) = Cardinality(FailedPositions)
        /\ \A j \in FailedPositions :
              /\ \A k \in 1..Len(datos) : datos[k].Ticker # tickers[j]
              /\ \A k \in 1..Len(df) : df[k].Ticker # tickers[j]
              /\ \E k \in 1..Len(errs) : errs[k].Ticker = tickers[j]

\* C3: the loop takes the tickers of the bounded list one at a time in
\* input order: i goes up by one per iteration from 1 and never passes
\* Len(tickers) + 1, where the loop ends, so the loop ends after
\* Len(tickers) iterations; a failed ticker leaves datos as it was and a
\* successful one appends its record; at the end datos holds exactly the
\* records of the successful tickers in input order.
C3_BatchProcessesEachTickerOnce ==
    [][/\ (pc = "idle" /\ pc' = "loop") =>
            i' = 1 /\ datos' = <<>> /\ Len(tickers') <= max_t'
       /\ (pc = "loop" /\ pc' = "loop") =>
            /\ i <= Len(tickers) /\ i' = i + 1 /\ tickers' = tickers
            /\ ~Succeeds(tickers[i]) => datos' = datos
            /\ Succeeds(tickers[i]) => datos' = Append(datos, RecordOf(tickers[i]))
       /\ (pc = "loop" /\ pc' = "done") =>
            /\ i = Len(tickers) + 1
            /\ datos' = datos /\ tickers' = tickers
            /\ datos = Successes(tickers)
       /\ pc = "loop" => pc' \in {"loop", "done"}]_vars

C3_Witness ==
    /\ pc = "done" /\ tickers = <<"AAPL", "BAD", "XOM">>
    /\ Len(datos) = 2 /\ datos[1].Ticker = "AAPL" /\ datos[2].Ticker = "XOM"

\* C4: when the loop is over, an empty datos ends the run in the "no data"
\* outcome with no sorted view; otherwise the sorted view holds exactly the
\* records of datos, each as many times as datos does.
C4_NoDataOrFullView ==
    pc = "done" =>
        IF datos = <<>>
        THEN outcome = "no_data" /\ df = <<>>
        ELSE /\ outcome = "view" /\ Len(df) = Len(datos)
             /\ \A j \in 1..Len(datos) :
                    Count(df, WithRank(datos[j])) = Count(datos, datos[j])

C4_Witness ==
    /\ pc = "done" /\ outcome = "view" /\ Len(df) = 3
    /\ df[1].Ticker # datos[1].Ticker

\* the sectors SECTOR_RANK ranks 1..11
KnownSectors == DOMAIN SECTOR_RANK \ {"Unknown"}

\* C5: the view is ordered by (sector rank, sector name, ticker); the rank
\* is SECTOR_RANK's (Technology 4, Energy 8, Unknown 99), a sector absent
\* from SECTOR_RANK ranks above every known sector and its records come
\* after all records of known sectors.
C5_ViewOrderedBySectorRank ==
    (pc = "done" /\ outcome = "view") =>
        /\ \A a \in 1..Len(df) :
              /\ df[a].Sector = "Technology" => df[a].SectorRank = 4
              /\ df[a].Sector = "Energy" => df[a].SectorRank = 8
              /\ df[a].Sector = "Unknown" => df[a].SectorRank = 99
              /\ df[a].Sector \in KnownSectors =>
                    df[a].SectorRank = SECTOR_RANK[df[a].Sector]
              /\ df[a].Sector \notin DOMAIN SECTOR_RANK =>
                    \A k \in KnownSectors : df[a].SectorRank > SECTOR_RANK[k]
        /\ \A a, b \in 1..Len(df) : a < b =>
              /\ df[a].SectorRank <= df[b].SectorRank
              /\ df[a].SectorRank = df[b].SectorRank =>
                    ~StrLess(df[b].Sector, df[a].Sector)
              /\ df[a].Sector = df[b].Sector =>
                    ~StrLess(df[b].Ticker, df[a].Ticker)
              /\ ~(df[a].Sector \notin DOMAIN SECTOR_RANK
                    /\ df[b].Sector \in KnownSectors)

C5_Witness ==
    /\ pc = "done" /\ tickers = <<"ACME", "XOM", "AAPL">>
    /\ Len(df) = 3 /\ df[1].Ticker = "AAPL" /\ df[2].Ticker = "XOM"
    /\ df[3].Ticker = "ACME"

-----------------------------------------------------------------------------
(* Properties of the functions (checked under SpecCalls).                  *)

DerivedFields == {"WACC", "ROIC", "CreacionValor", "PFCF", "RevenueGrowth",
                  "EPSGrowth", "FCFGrowth"}

\* C2: a ticker fetched successfully (tables with periods, whatever items
\* are absent or missing) gets a record, whose derived fields are each a
\* finite number or None.
C2_FetchedTickerGetsRecord ==
    (fn = "build" /\ Called /\ arg.ok
        /\ arg.bs.cols > 0 /\ arg.fin.cols > 0 /\ arg.cf.cols > 0) =>
        /\ IsDict(Result)
        /\ \A k \in DerivedFields :
              IsFinite(Result[2][k]) \/ IsNone(Result[2][k])

RECURSIVE Flatten(_)
Flatten(chunks) ==
    IF chunks = <<>> THEN <<>> ELSE Head(chunks) \o Flatten(Tail(chunks))

\* C6: the chunks of a group, concatenated in order, give the group; every
\* chunk but the last holds size records, none is empty, there are
\* ceil(n/size) of them, and an empty group has no chunk.
C6_ChunksPartitionGroup ==
    (fn = "chunk_df" /\ Called) =>
        LET group == arg[1]
            size == arg[2]
            n == Len(group)
            c == Result
        IN  /\ Flatten(c) = group
            /\ \A j \in 1..Len(c) : Len(c[j]) >= 1 /\ Len(c[j]) <= size
            /\ \A j \in 1..(Len(c) - 1) : Len(c[j]) = size
            /\ Len(c) * size >= n /\ (n > 0 => (Len(c) - 1) * size < n)
            /\ (n = 0 => c = <<>>)

C6_Witness ==
    /\ fn = "chunk_df" /\ Called /\ Len(arg[1]) = 23
    /\ arg[2] = MAX_TICKERS_PER_CHART
    /\ Len(Result) = 3 /\ Len(Result[1]) = 10 /\ Len(Result[2]) = 10
    /\ Result[3] = <<21, 22, 23>>

\* C7: in a record built, the spread is None exactly when ROIC or WACC is
\* None, is a number exactly when both are numbers, and then equals
\* (ROIC - WACC) * 100; computing the spread raises only if ROIC or WACC
\* did.
C7_SpreadIffRoicAndWacc ==
    (fn = "build" /\ Called) =>
        /\ IsDict(Result) =>
              LET r == Result[2]
              IN  /\ IsNone(r.CreacionValor) <=> (IsNone(r.ROIC) \/ IsNone(r.WACC))
                  /\ IsNum(r.CreacionValor) <=> (IsNum(r.ROIC) /\ IsNum(r.WACC))
                  /\ IsNum(r.CreacionValor) =>
                        r.CreacionValor =
                            Num((r.ROIC[2] * r.WACC[3] - r.WACC[2] * r.ROIC[3]) * 100,
                                r.ROIC[3] * r.WACC[3])
        /\ arg.ok =>
              LET l == Locals(arg, Tc0)
              IN  IsRaise(l.creacion_valor) => (IsRaise(l.roic) \/ IsRaise(l.wacc))

C7_Witness ==
    /\ fn = "build" /\ Called /\ IsDict(Result)
    /\ IsNum(Result[2].ROIC) /\ Result[2].ROIC[2] # 0
    /\ IsNum(Result[2].WACC) /\ Result[2].WACC[2] # 0
    /\ IsNum(Result[2].CreacionValor) /\ Result[2].CreacionValor[2] # 0

ZeroOrNone(x) == IsNone(x) \/ (IsNum(x) /\ x[2] = 0)
NoneAsZero(x) == IF IsNone(x) THEN Z(0) ELSE x

\* C8: calc_wacc gives None when equity and debt are each zero or None,
\* and otherwise the number (E/(E+D))*Ke + (D/(E+D))*Kd*(1-tax) with a None
\* equity or debt taken as 0; it never raises.
C8_WaccDefinedUnlessNoCapital ==
    (fn = "calc_wacc" /\ Called) =>
        LET E == NoneAsZero(arg[1])
            D == NoneAsZero(arg[2])
            total == Add(E, D)
        IN  IF ZeroOrNone(arg[1]) /\ ZeroOrNone(arg[2])
            THEN IsNone(Result)
            ELSE /\ IsNum(Result)
                 /\ Result = Add(Mul(Div(E, total), arg[3]),
                                 Mul(Mul(Div(D, total), arg[4]),
                                     Sub(Z(1), arg[5])))

\* C9: cagr4 gives a finite number exactly when the row exists, at least 2
\* of its 4 most recent periods are not missing and the earliest of those
\* is nonzero, and gives None otherwise; with exactly 2 such periods
\* [a, b] the number is a/b - 1.
C9_CagrOverFourMostRecentPeriods ==
    (fn = "cagr4" /\ Called) =>
        LET present == arg[2] \in DOMAIN arg[1].rows
            used == IF present THEN dropna(FirstN(arg[1].rows[arg[2]], 4)) ELSE <<>>
            avail == Len(used) >= 2 /\ used[Len(used)][2] # 0
        IN  /\ avail <=> IsFinite(Result)
            /\ ~avail => IsNone(Result)
            /\ (avail /\ Len(used) = 2) =>
                  Result = Num(used[1][2] - used[2][2], used[2][2])

\* C10: seek_row gives the row of the first key of the list that the table
\* has, and a one-period row holding 0 when the table has none of them; it
\* never raises.
C10_SeekRowFirstAliasOrZeroRow ==
    (fn = "seek_row" /\ Called) =>
        LET t == arg[1]
            keys == arg[2]
            hits == {j \in 1..Len(keys) : keys[j] \in DOMAIN t.rows}
        IN  IF hits # {}
            THEN \E j \in hits :
                    /\ \A k \in hits : j <= k
                    /\ Result = Series(t.rows[keys[j]])
            ELSE IsSeries(Result) /\ Cells(Result) = <<Z(0)>>

\* C11: two calls of the build with the same ticker, tables, info map and
\* default tax rate return identical values, whatever calls and sidebar
\* changes came between them.
C11_BuildDeterministicInDeclaredInputs ==
    fn = "build" =>
        \A j \in 1..Len(arg), k \in 1..Len(arg) :
            arg[j] = arg[k] => ret[j] = ret[k]

\* C12: safe_first on a row gives its first cell that is not missing, and
\* None when the row has no such cell (all cells missing, or no cell); on a
\* scalar it gives the scalar itself, and None when the scalar is missing.
C12_SafeFirstLatestOrUnavailable ==
    (fn = "safe_first" /\ Called) =>
        IF IsSeries(arg)
        THEN LET c == Cells(arg)
                 kept == {j \in 1..Len(c) : ~IsNaN(c[j])}
             IN  IF kept = {}
                 THEN IsNone(Result)
                 ELSE \E j \in kept :
                         (\A k \in kept : j <= k) /\ Result = c[j]
        ELSE IF IsNone(arg) \/ IsNaN(arg)
             THEN IsNone(Result)
             ELSE Result = arg

\* the cells of the first EBIT alias row the income statement has
EbitRow(fin) ==
    LET hits == {j \in 1..Len(EbitKeys) : EbitKeys[j] \in DOMAIN fin.rows}
    IN  IF hits = {} THEN <<>>
        ELSE fin.rows[EbitKeys[CHOOSE j \in hits : \A k \in hits : j <= k]]

\* EBIT is available: an alias row is there and has a cell not missing
EbitAvailable(fin) == \E j \in 1..Len(EbitRow(fin)) : ~IsNaN(EbitRow(fin)[j])

\* C13: in a record built, ROIC is None when no EBIT alias row with a cell
\* not missing is in the income statement or equity + debt - cash is zero
\* (a None term counting as 0), and is EBIT * (1 - tax) / (equity + debt -
\* cash) in every other case.
C13_RoicUnavailableOrNopatOverInvested ==
    (fn = "build" /\ Called /\ IsDict(Result)) =>
        LET l == Locals(arg, Tc0)
            capital == Sub(Add(NoneAsZero(l.equity), NoneAsZero(l.debt)),
                           NoneAsZero(l.cash))
        IN  IF ~EbitAvailable(arg.fin) \/ capital = Z(0)
            THEN IsNone(Result[2].ROIC)
            ELSE Result[2].ROIC =
                     Div(Mul(l.ebit, Sub(Z(1), l.tax)), capital)

=============================================================================
